---- MODULE Spec2Model ----
(***************************************************************************)
(* Strength Routine Tracker: the App component of src/App.tsx as a state   *)
(* machine.  The state is the component's React state (user, loading,      *)
(* exercises, activeTab, showAddForm, formData), the remote record store   *)
(* behind blink.db.exercises, the list and create calls in flight, and the *)
(* toast of the last handler.  Every handler runs to completion (one       *)
(* action each); an awaited store call is split in the request being       *)
(* served by the store and the response being delivered to the suspended   *)
(* continuation, which runs with the values of the render that started it. *)
(***************************************************************************)
EXTENDS Integers, Sequences, FiniteSets

\* Bounds of Spec: the number of submissions that pass validation in one run
\* (it caps the clock, the records and the create calls), and the number of
\* store calls (list and create) in flight at the same time.
MaxSubmits == 1
MaxInFlight == 1
\* Bounds of SpecRefresh: the same two numbers.
MaxRefreshSubmits == 2
MaxRefreshInFlight == 2
\* Bound of SpecHistory: the number of records the store holds from earlier
\* sessions.
MaxHistory == 3

NoUser == "null"
Users == {"u1", "u2"}
Categories == {"upper", "lower"}
Fields == {"exercise_name", "reps", "sets", "total_weight"}

\* The names of the records of earlier sessions, and what is typed in the name
\* field when they are looked up (SpecHistory).
HistoryNames == {"SQUATS", "Rows"}
LookupInputs == {"", "squats", "Rows"}

\* What can be typed in each input (the empty string: the field erased).
FieldInputs(f) ==
    CASE f = "exercise_name" -> {"", "Squats"}
      [] f = "reps"          -> {"", "8"}
      [] f = "sets"          -> {"", "3"}
      [] f = "total_weight"  -> {"", "2.5"}

VARIABLES
    user,         \* useState<User | null>: the signed-in user's id, or NoUser
    loading,      \* useState(true)
    exercises,    \* useState<Exercise[]>: the in-memory record list
    activeTab,    \* useState<'upper' | 'lower'>
    showAddForm,  \* useState(false)
    formData,     \* the draft: four strings
    store,        \* the record store's exercises collection, in insertion order
    listCalls,    \* blink.db.exercises.list calls in flight, in issue order
    createCalls,  \* blink.db.exercises.create calls in flight, in issue order
    clock,        \* the client's clock, read by new Date()
    toast         \* the notification the last handler raised, or "none"

vars == <<user, loading, exercises, activeTab, showAddForm, formData,
          store, listCalls, createCalls, clock, toast>>

----------------------------------------------------------------------------
(* Pure helpers *)

\* String.prototype.toLowerCase on the names of the model.
ToLowerCase(s) ==
    CASE s = "Squats" -> "squats"
      [] s = "SQUATS" -> "squats"
      [] s = "Rows"   -> "rows"
      [] OTHER        -> s

\* parseInt on the numbers that can be typed.
ParseInt(s) ==
    CASE s = "8" -> 8
      [] s = "3" -> 3
      [] OTHER   -> 0

\* parseFloat on the weights that can be typed, in units of 0.5 lbs (the
\* input's step).
ParseFloat(s) ==
    CASE s = "2.5" -> 5
      [] OTHER     -> 0

\* The draft after setFormData({ exercise_name: '', reps: '', ... }).
EmptyForm ==
    [exercise_name |-> "", reps |-> "", sets |-> "", total_weight |-> ""]

\* A faulty validation, for comparison: the test of total_weight is missing.
IsIncompleteNoWeight(fd) ==
    fd.exercise_name = "" \/ fd.reps = "" \/ fd.sets = ""

\* The validation of handleSubmit: some field is falsy (the empty string).
IsIncomplete(fd) ==
    fd.exercise_name = "" \/ fd.reps = "" \/ fd.sets = "" \/ fd.total_weight = ""

\* A faulty record, for comparison: the category is that of the first tab,
\* not of the active one.
NewExerciseFirstTab(fd, tab, u, now) ==
    [user_id       |-> u,
     exercise_name |-> fd.exercise_name,
     category      |-> "upper",
     reps          |-> ParseInt(fd.reps),
     sets          |-> ParseInt(fd.sets),
     total_weight  |-> ParseFloat(fd.total_weight),
     created_at    |-> now]

\* The argument of blink.db.exercises.create.
NewExercise(fd, tab, u, now) ==
    [user_id       |-> u,
     exercise_name |-> fd.exercise_name,
     category      |-> tab,
     reps          |-> ParseInt(fd.reps),
     sets          |-> ParseInt(fd.sets),
     total_weight  |-> ParseFloat(fd.total_weight),
     created_at    |-> now]

\* The store assigns the identifier.
Stored(rec, id) ==
    [id            |-> id,
     user_id       |-> rec.user_id,
     exercise_name |-> rec.exercise_name,
     category      |-> rec.category,
     reps          |-> rec.reps,
     sets          |-> rec.sets,
     total_weight  |-> rec.total_weight,
     created_at    |-> rec.created_at]

\* orderBy: { created_at: 'desc' }: insertion of r in a list that is in
\* descending creation order.
RECURSIVE InsertDesc(_, _)
InsertDesc(r, s) ==
    IF s = <<>> THEN <<r>>
    ELSE IF r.created_at > Head(s).created_at THEN <<r>> \o s
    ELSE <<Head(s)>> \o InsertDesc(r, Tail(s))

RECURSIVE OrderByCreatedDesc(_)
OrderByCreatedDesc(s) ==
    IF s = <<>> THEN <<>>
    ELSE InsertDesc(Head(s), OrderByCreatedDesc(Tail(s)))

\* blink.db.exercises.list({ where: { user_id }, orderBy: { created_at: 'desc' } })
\* served on the store's current contents.
ListResult(u) ==
    OrderByCreatedDesc(SelectSeq(store, LAMBDA r : r.user_id = u))

\* JavaScript's undefined and null: what a lookup that finds nothing yields.
Undefined == [undefined |-> TRUE]

\* s without its i-th element.
RemoveAt(s, i) ==
    SubSeq(s, 1, i - 1) \o SubSeq(s, i + 1, Len(s))

\* Array.prototype.find with the predicate of getPreviousExercise: the first
\* element of s whose lower-cased name and category match, or undefined.
RECURSIVE Find(_, _, _)
Find(s, exerciseName, category) ==
    IF s = <<>> THEN Undefined
    ELSE IF /\ ToLowerCase(Head(s).exercise_name) = ToLowerCase(exerciseName)
            /\ Head(s).category = category
         THEN Head(s)
    ELSE Find(Tail(s), exerciseName, category)

\* A faulty lookup, for comparison: the names are compared as typed, without
\* toLowerCase.
RECURSIVE FindCaseSensitive(_, _, _)
FindCaseSensitive(s, exerciseName, category) ==
    IF s = <<>> THEN Undefined
    ELSE IF Head(s).exercise_name = exerciseName /\ Head(s).category = category
         THEN Head(s)
    ELSE FindCaseSensitive(Tail(s), exerciseName, category)

getPreviousExerciseCaseSensitive(exerciseName, category) ==
    FindCaseSensitive(exercises, exerciseName, category)

getPreviousExercise(exerciseName, category) ==
    Find(exercises, exerciseName, category)

\* const previousExercise = formData.exercise_name ? getPreviousExercise(...) : null
previousExercise ==
    IF formData.exercise_name # ""
    THEN getPreviousExercise(formData.exercise_name, activeTab)
    ELSE Undefined

\* Array.prototype.filter with the predicate of getFilteredExercises, element
\* by element.
RECURSIVE Filter(_, _)
Filter(s, category) ==
    IF s = <<>> THEN <<>>
    ELSE IF Head(s).category = category
         THEN <<Head(s)>> \o Filter(Tail(s), category)
    ELSE Filter(Tail(s), category)

\* A faulty filter, for comparison: the matches are collected in reverse.
RECURSIVE FilterReversed(_, _)
FilterReversed(s, category) ==
    IF s = <<>> THEN <<>>
    ELSE IF Head(s).category = category
         THEN FilterReversed(Tail(s), category) \o <<Head(s)>>
    ELSE FilterReversed(Tail(s), category)

getFilteredExercisesReversed(category) ==
    FilterReversed(exercises, category)

getFilteredExercises(category) ==
    Filter(exercises, category)

----------------------------------------------------------------------------
(* State *)

Init ==
    /\ user = NoUser
    /\ loading = TRUE
    /\ exercises = <<>>
    /\ activeTab = "upper"
    /\ showAddForm = FALSE
    /\ formData = EmptyForm
    /\ store = <<>>
    /\ listCalls = <<>>
    /\ createCalls = <<>>
    /\ clock = 1
    /\ toast = "none"

\* The main view (tabs, form, lists) is rendered: neither the loading screen
\* nor the sign-in card.
MainView == ~loading /\ user # NoUser

\* The store calls in flight.
InFlight == Len(listCalls) + Len(createCalls)

\* The step stays within maxSubmits accepted submissions and maxInFlight
\* calls in flight.
Within(maxSubmits, maxInFlight) ==
    /\ clock' <= maxSubmits + 1
    /\ InFlight' <= maxInFlight

\* loadExercises of the render in which the user was u: the guard, then the
\* list call is sent.
LoadExercises(u, calls) ==
    IF u = NoUser THEN calls
    ELSE Append(calls, [user_id |-> u, phase |-> "sent", data |-> <<>>])

----------------------------------------------------------------------------
(* Event handlers *)

\* blink.auth.onAuthStateChanged delivers state; the effect on [user,
\* loadExercises] then loads the new user's records.
AuthStateChanged(u, isLoading) ==
    /\ <<u, isLoading>> # <<user, loading>>
    /\ isLoading => u = NoUser
    /\ u # user => (u = NoUser \/ user = NoUser)
    /\ user' = u
    /\ loading' = isLoading
    /\ listCalls' = IF u # user THEN LoadExercises(u, listCalls) ELSE listCalls
    /\ UNCHANGED <<exercises, activeTab, showAddForm, formData, store,
                   createCalls, clock>>
    /\ toast' = "none"

\* Tabs onValueChange.
SetActiveTab(value) ==
    /\ MainView
    /\ value # activeTab
    /\ activeTab' = value
    /\ UNCHANGED <<user, loading, exercises, showAddForm, formData, store,
                   listCalls, createCalls, clock>>
    /\ toast' = "none"

\* The "Log ... Exercise" button: setShowAddForm(!showAddForm).
ToggleAddForm ==
    /\ MainView
    /\ showAddForm' = ~showAddForm
    /\ UNCHANGED <<user, loading, exercises, activeTab, formData, store,
                   listCalls, createCalls, clock>>
    /\ toast' = "none"

\* The Cancel button: setShowAddForm(false).
Cancel ==
    /\ MainView
    /\ showAddForm
    /\ showAddForm' = FALSE
    /\ UNCHANGED <<user, loading, exercises, activeTab, formData, store,
                   listCalls, createCalls, clock>>
    /\ toast' = "none"

\* An input's onChange: setFormData({ ...formData, [f]: e.target.value }).
ChangeField(f, value) ==
    /\ MainView
    /\ showAddForm
    /\ value # formData[f]
    /\ formData' = [formData EXCEPT ![f] = value]
    /\ UNCHANGED <<user, loading, exercises, activeTab, showAddForm, store,
                   listCalls, createCalls, clock>>
    /\ toast' = "none"

\* handleSubmit up to its await: validation, then the create call is sent.
HandleSubmit ==
    /\ MainView
    /\ showAddForm
    /\ IF IsIncomplete(formData)
       THEN /\ toast' = "validation"
            /\ UNCHANGED <<createCalls, clock>>
       ELSE /\ createCalls' = Append(createCalls,
                   [rec   |-> NewExercise(formData, activeTab, user, clock),
                    phase |-> "sent"])
            /\ clock' = clock + 1
            /\ toast' = "none"
    /\ UNCHANGED <<user, loading, exercises, activeTab, showAddForm, formData,
                   store, listCalls>>

\* The store serves the i-th create call: the record is appended.
StoreCreate(i) ==
    /\ createCalls[i].phase = "sent"
    /\ store' = Append(store, Stored(createCalls[i].rec, Len(store) + 1))
    /\ createCalls' = [createCalls EXCEPT ![i].phase = "served"]
    /\ UNCHANGED <<user, loading, exercises, activeTab, showAddForm, formData,
                   listCalls, clock>>
    /\ toast' = "none"

\* A faulty continuation of handleSubmit, for comparison: setFormData is
\* missing.
CreateResolvedKeepsDraft(i) ==
    /\ createCalls[i].phase = "served"
    /\ showAddForm' = FALSE
    /\ listCalls' = LoadExercises(createCalls[i].rec.user_id, listCalls)
    /\ toast' = "success"
    /\ createCalls' = RemoveAt(createCalls, i)
    /\ UNCHANGED <<user, loading, exercises, activeTab, formData, store, clock>>

\* The i-th create call resolves: handleSubmit continues after its await,
\* with the user and loadExercises of the render that handled the submit.
CreateResolved(i) ==
    /\ createCalls[i].phase = "served"
    /\ formData' = EmptyForm
    /\ showAddForm' = FALSE
    /\ listCalls' = LoadExercises(createCalls[i].rec.user_id, listCalls)
    /\ toast' = "success"
    /\ createCalls' = RemoveAt(createCalls, i)
    /\ UNCHANGED <<user, loading, exercises, activeTab, store, clock>>

\* The i-th create call rejects (before or after the store served it): the
\* catch block of handleSubmit.
CreateRejected(i) ==
    /\ toast' = "createError"
    /\ createCalls' = RemoveAt(createCalls, i)
    /\ UNCHANGED <<user, loading, exercises, activeTab, showAddForm, formData,
                   store, listCalls, clock>>

\* The store serves the i-th list call on its current contents.
StoreList(i) ==
    /\ listCalls[i].phase = "sent"
    /\ listCalls' = [listCalls EXCEPT
                       ![i].phase = "served",
                       ![i].data = ListResult(listCalls[i].user_id)]
    /\ UNCHANGED <<user, loading, exercises, activeTab, showAddForm, formData,
                   store, createCalls, clock>>
    /\ toast' = "none"

\* The i-th list call resolves: setExercises(data).
ListResolved(i) ==
    /\ listCalls[i].phase = "served"
    /\ exercises' = listCalls[i].data
    /\ listCalls' = RemoveAt(listCalls, i)
    /\ UNCHANGED <<user, loading, activeTab, showAddForm, formData, store,
                   createCalls, clock>>
    /\ toast' = "none"

\* A faulty catch block of loadExercises, for comparison: it empties the list.
ListRejectedClears(i) ==
    /\ toast' = "loadError"
    /\ exercises' = <<>>
    /\ listCalls' = RemoveAt(listCalls, i)
    /\ UNCHANGED <<user, loading, activeTab, showAddForm, formData, store,
                   createCalls, clock>>

\* The i-th list call rejects: the catch block of loadExercises.
ListRejected(i) ==
    /\ toast' = "loadError"
    /\ listCalls' = RemoveAt(listCalls, i)
    /\ UNCHANGED <<user, loading, exercises, activeTab, showAddForm, formData,
                   store, createCalls, clock>>

----------------------------------------------------------------------------

Next ==
    \/ \E u \in Users \cup {NoUser}, b \in BOOLEAN :
          AuthStateChanged(u, b) /\ Within(MaxSubmits, MaxInFlight)
    \/ \E c \in Categories : SetActiveTab(c)
    \/ ToggleAddForm
    \/ Cancel
    \/ \E f \in Fields : \E v \in FieldInputs(f) : ChangeField(f, v)
    \/ HandleSubmit /\ Within(MaxSubmits, MaxInFlight)
    \/ \E i \in DOMAIN createCalls : StoreCreate(i)
    \/ \E i \in DOMAIN createCalls : CreateResolved(i)
    \/ \E i \in DOMAIN createCalls : CreateRejected(i)
    \/ \E i \in DOMAIN listCalls : StoreList(i)
    \/ \E i \in DOMAIN listCalls : ListResolved(i)
    \/ \E i \in DOMAIN listCalls : ListRejected(i)

Spec == Init /\ [][Next]_vars

----------------------------------------------------------------------------
(* The program started on a store that holds records of earlier sessions:   *)
(* the user signs in, the list is loaded, and the name field and the tabs   *)
(* are used to look records up.                                             *)

\* The orders in which the elements of S can be arranged.
RECURSIVE Orders(_)
Orders(S) ==
    IF S = {} THEN {<<>>}
    ELSE UNION {{<<x>> \o p : p \in Orders(S \ {x})} : x \in S}

\* The stores of n records of user u1: any names and categories, inserted in
\* any order of their creation times.
HistoriesOfLen(n) ==
    { [i \in 1..n |->
          Stored(NewExercise([exercise_name |-> names[i], reps |-> "8",
                              sets |-> "3", total_weight |-> "2.5"],
                             cats[i], "u1", times[i]), i)] :
        names \in [1..n -> HistoryNames],
        cats \in [1..n -> Categories],
        times \in Orders(1..n) }

\* The stores of at most maxLen such records.
Histories(maxLen) == UNION {HistoriesOfLen(n) : n \in 0..maxLen}

InitHistory ==
    /\ user = NoUser
    /\ loading = TRUE
    /\ exercises = <<>>
    /\ activeTab = "upper"
    /\ showAddForm = FALSE
    /\ formData = EmptyForm
    /\ store \in Histories(MaxHistory)
    /\ listCalls = <<>>
    /\ createCalls = <<>>
    /\ clock = Len(store) + 1
    /\ toast = "none"

NextHistory ==
    \/ (user = NoUser /\ AuthStateChanged("u1", FALSE))
    \/ \E i \in DOMAIN listCalls : StoreList(i)
    \/ \E i \in DOMAIN listCalls : ListResolved(i)
    \/ \E c \in Categories : SetActiveTab(c)
    \/ ToggleAddForm
    \/ \E v \in LookupInputs : ChangeField("exercise_name", v)

SpecHistory == InitHistory /\ [][NextHistory]_vars

----------------------------------------------------------------------------
(* The program with one user who stays signed in and a store whose calls    *)
(* never fail: the runs in which every call resolves without error.         *)

NextRefresh ==
    \/ /\ user = NoUser
       /\ \E u \in {NoUser, "u1"} : AuthStateChanged(u, FALSE)
       /\ Within(MaxRefreshSubmits, MaxRefreshInFlight)
    \/ \E c \in Categories : SetActiveTab(c)
    \/ ToggleAddForm
    \/ Cancel
    \/ \E f \in Fields : \E v \in FieldInputs(f) : ChangeField(f, v)
    \/ HandleSubmit /\ Within(MaxRefreshSubmits, MaxRefreshInFlight)
    \/ \E i \in DOMAIN createCalls : StoreCreate(i)
    \/ \E i \in DOMAIN createCalls : CreateResolved(i)
    \/ \E i \in DOMAIN listCalls : StoreList(i)
    \/ \E i \in DOMAIN listCalls : ListResolved(i)

SpecRefresh == Init /\ [][NextRefresh]_vars

----------------------------------------------------------------------------
(* Properties *)

\* Some field of the draft is the empty string.
SomeFieldEmpty == \E f \in Fields : formData[f] = ""

\* C1: every submit event handled while some draft field is empty issues no
\* store call, raises the validation notification and leaves the draft, the
\* form's open/collapsed state and the record list as they were.
C1_RejectedSubmit ==
    [][(HandleSubmit /\ SomeFieldEmpty) =>
          /\ createCalls' = createCalls
          /\ listCalls' = listCalls
          /\ store' = store
          /\ toast' = "validation"
          /\ formData' = formData
          /\ showAddForm' = showAddForm
          /\ exercises' = exercises]_vars

\* A partly filled draft (sets missing) has just been rejected.
C1_Witness ==
    /\ toast = "validation"
    /\ showAddForm
    /\ formData.exercise_name # "" /\ formData.reps # ""
    /\ formData.sets = "" /\ formData.total_weight # ""

\* C2: a submit event with a complete draft sends exactly one create call,
\* for a record of the active tab and of the signed-in user; the store
\* appends exactly that record, once, when it serves the call; and when the
\* call resolves the draft is emptied.
C2_AcceptedSubmit ==
    [][/\ (HandleSubmit /\ ~SomeFieldEmpty) =>
             /\ user # NoUser
             /\ Len(createCalls') = Len(createCalls) + 1
             /\ SubSeq(createCalls', 1, Len(createCalls)) = createCalls
             /\ createCalls'[Len(createCalls')].phase = "sent"
             /\ createCalls'[Len(createCalls')].rec.category = activeTab
             /\ createCalls'[Len(createCalls')].rec.user_id = user
             /\ createCalls'[Len(createCalls')].rec.exercise_name
                    = formData.exercise_name
             /\ store' = store
       /\ (store' # store) =>
             /\ Len(store') = Len(store) + 1
             /\ SubSeq(store', 1, Len(store)) = store
             /\ \E i \in DOMAIN createCalls :
                   /\ createCalls[i].phase = "sent"
                   /\ createCalls' = [createCalls EXCEPT ![i].phase = "served"]
                   /\ store'[Len(store')].category = createCalls[i].rec.category
                   /\ store'[Len(store')].user_id = createCalls[i].rec.user_id
                   /\ store'[Len(store')].exercise_name
                          = createCalls[i].rec.exercise_name
                   /\ store'[Len(store')].created_at
                          = createCalls[i].rec.created_at
       /\ (toast' = "success") =>
             /\ formData' = EmptyForm
             /\ store' = store
             /\ \E i \in DOMAIN createCalls :
                   /\ createCalls[i].phase = "served"
                   /\ createCalls' = RemoveAt(createCalls, i)]_vars

\* A record logged by u2 under the lower tab is in the store, its create call
\* has just resolved, and the tab has been changed since.
C2_Witness ==
    /\ toast = "success"
    /\ formData = EmptyForm
    /\ activeTab = "upper"
    /\ user = "u2"
    /\ \E i \in DOMAIN store :
          store[i].category = "lower" /\ store[i].user_id = "u2"

\* Letter case ignored, by the classes of names that differ in case only.
CaseVariants == {{"Squats", "SQUATS", "squats"}, {"Rows", "rows"}}

SameIgnoringCase(a, b) ==
    a = b \/ \E cls \in CaseVariants : a \in cls /\ b \in cls

\* The positions of the loaded records of category c named nm, case ignored.
Matches(nm, c) ==
    {i \in DOMAIN exercises :
        /\ exercises[i].category = c
        /\ SameIgnoringCase(exercises[i].exercise_name, nm)}

\* found is the most recently created of the records Matches(nm, c), or
\* undefined when there is none.
IsMostRecentMatch(found, nm, c) ==
    IF Matches(nm, c) = {} THEN found = Undefined
    ELSE \E i \in Matches(nm, c) :
            /\ found = exercises[i]
            /\ \A j \in Matches(nm, c) :
                  exercises[i].created_at >= exercises[j].created_at

\* C3: for every non-empty name and every category, getPreviousExercise
\* yields the most recently created loaded record of that category whose name
\* is the given one ignoring case, or nothing when no loaded record matches;
\* the panel's previousExercise is that of the typed name and the active tab.
C3_MostRecentMatch ==
    /\ \A nm \in (LookupInputs \cup HistoryNames) \ {""} : \A c \in Categories :
          IsMostRecentMatch(getPreviousExercise(nm, c), nm, c)
    /\ formData.exercise_name # "" =>
          IsMostRecentMatch(previousExercise, formData.exercise_name, activeTab)

\* "squats" is typed; the first loaded record does not match, two later ones
\* do, and the one shown is spelled "SQUATS".
C3_Witness ==
    /\ formData.exercise_name = "squats"
    /\ Len(exercises) = 3
    /\ 1 \notin Matches("squats", activeTab)
    /\ Matches("squats", activeTab) = {2, 3}
    /\ previousExercise = exercises[2]
    /\ previousExercise.exercise_name = "SQUATS"

\* C4 as stated: every step that collapses the form (Cancel, the toggle
\* button, a successful submission) leaves the draft empty.
C4_CollapseEmptiesDraft ==
    [][(showAddForm /\ ~showAddForm') => formData' = EmptyForm]_vars

\* C4 as amended: the draft is emptied when a submission succeeds; a step
\* that collapses the form otherwise (Cancel, the toggle button) leaves the
\* draft as typed.
C4_DraftResetOnSuccessOnly ==
    [][/\ (toast' = "success") => formData' = EmptyForm
       /\ (showAddForm /\ ~showAddForm' /\ toast' # "success") =>
             formData' = formData]_vars

\* The form is collapsed and the draft still holds what was typed.
C4_Witness ==
    /\ ~showAddForm
    /\ ~SomeFieldEmpty
    /\ createCalls = <<>>

\* C5: a rejected list call changes nothing but the notification (the record
\* list stays as it was); a rejected create call changes nothing but the
\* notification either: the form's open/collapsed state, the draft and the
\* record list stay, and no list call is sent.
C5_FailureLeavesState ==
    [][/\ (toast' = "loadError") =>
             /\ Len(listCalls') = Len(listCalls) - 1
             /\ UNCHANGED <<user, loading, exercises, activeTab, showAddForm,
                            formData, store, createCalls>>
       /\ (toast' = "createError") =>
             /\ Len(createCalls') = Len(createCalls) - 1
             /\ UNCHANGED <<user, loading, exercises, activeTab, showAddForm,
                            formData, store, listCalls>>]_vars

\* A list call has just been rejected while records were loaded and the form
\* was open: the records are still there.
C5_Witness ==
    /\ toast = "loadError"
    /\ exercises # <<>>
    /\ showAddForm

\* C6: no step sends a list or create call to the store while no user is
\* signed in.
C6_CallsOnlyWhenSignedIn ==
    [][(Len(listCalls') > Len(listCalls) \/ Len(createCalls') > Len(createCalls))
          => user' # NoUser]_vars

\* C7: once no call is outstanding (and none was rejected: SpecRefresh has no
\* rejection and no sign-out), the record list of the signed-in user is the store's list of
\* that user's records in descending creation order.
C7_ListEqualsStore ==
    (user # NoUser /\ listCalls = <<>> /\ createCalls = <<>>)
        => exercises = ListResult(user)

\* The number of positions up to j of the loaded records of category c.
CountUpTo(j, c) ==
    Cardinality({i \in 1..j : exercises[i].category = c})

\* C8: for every category, the filtered view has as many elements as there
\* are loaded records of the category, and its k-th element is the k-th
\* loaded record of the category.
C8_FilterIsSubsequence ==
    \A c \in Categories :
        /\ Len(getFilteredExercises(c)) = CountUpTo(Len(exercises), c)
        /\ \A k \in 1..Len(getFilteredExercises(c)) :
              \E j \in DOMAIN exercises :
                 /\ exercises[j].category = c
                 /\ CountUpTo(j, c) = k
                 /\ getFilteredExercises(c)[k] = exercises[j]

\* Three records are loaded, the middle one of the other category.
C8_Witness ==
    /\ Len(exercises) = 3
    /\ exercises[1].category = "upper"
    /\ exercises[2].category = "lower"
    /\ exercises[3].category = "upper"
    /\ Len(getFilteredExercises("upper")) = 2

\* C9: while a user is signed in, every record of the record list is owned
\* by that user.
C9_ListOwnedByUser ==
    user # NoUser => \A i \in DOMAIN exercises : exercises[i].user_id = user

\* C10: at most one create call is outstanding.
C10_OneCreateOutstanding ==
    Len(createCalls) <= 1

====
